---- MODULE Spec2Model ----
(***************************************************************************)
(* Message fan-out and delivery-state management of the event platform:    *)
(* MessagesService (createMessage, deliverQueuedMessages, updateMessage,   *)
(* sendMessage) and the recipient-facing reads and acknowledgement of      *)
(* MobileService, over the Attendee, Invite and MobileMessage tables.      *)
(***************************************************************************)
EXTENDS Integers, Sequences, FiniteSets, TLC

VARIABLES attendees, invites, broadcasts, messages, now, lastCall, promoted, calls

vars == <<attendees, invites, broadcasts, messages, now, lastCall, promoted, calls>>

(* ------------------------------ bounds --------------------------------- *)

\* Handler calls made in one behaviour of Spec (the clock advances once per call).
MaxNow == 3
\* Rows of the MobileMessage table.
MaxMsgs == 5
\* Concurrent requests in one behaviour of SpecConc.
NProcs == 2

(* --------------------------- values and tables ------------------------- *)

NULL == "null"
UNDEF == "undefined"
\* deliveredAt of a row that has none
NoDate == -1
\* a message id no row has / the undefined result of a handler
NoId == 0
\* the result of a handler that threw
NotFoundException == -404
\* the result of a handler that a rejected store call made throw
StoreError == -500
\* the result { ok: true } of a client call
Ok == 200
\* a property read on undefined
TypeError == -1000

Events == {"e1", "e2"}
Emails == {"x", "y", "z", "w"}
Audiences == {UNDEF, "all", "invited", "accepted"}
StatusIn == {UNDEF, "sent", "draft"}

\* Attendee rows: a1 and a2 attend e1 (a2 has acceptedAt set), a3 attends e2,
\* a4 attends e1 without acceptedAt.
AttendeeRows ==
    << [id |-> "a1", eventId |-> "e1", email |-> "x", acceptedAt |-> NoDate],
       [id |-> "a2", eventId |-> "e1", email |-> "y", acceptedAt |-> 0],
       [id |-> "a3", eventId |-> "e2", email |-> "x", acceptedAt |-> NoDate],
       [id |-> "a4", eventId |-> "e1", email |-> "w", acceptedAt |-> NoDate] >>

\* Invite rows of e1: i1 invites the person who is attendee a1, i2 someone with
\* no attendee row yet, i3 (still pending) the person who is attendee a4.
InviteRows ==
    << [id |-> "i1", eventId |-> "e1", email |-> "x", status |-> "accepted"],
       [id |-> "i2", eventId |-> "e1", email |-> "z", status |-> "pending"],
       [id |-> "i3", eventId |-> "e1", email |-> "w", status |-> "pending"] >>

\* The Broadcast rows: one draft campaign of e1.
BroadcastId == 101
BroadcastRows == << [id |-> BroadcastId, eventId |-> "e1", status |-> "draft"] >>

Range(s) == {s[k] : k \in 1..Len(s)}
AttendeeIds == {a.id : a \in Range(attendees)}
InviteIds == {i.id : i \in Range(invites)}
MessageIds == 1..Len(messages)

Reverse(s) == [k \in 1..Len(s) |-> s[Len(s) + 1 - k]]

\* JavaScript truthiness of an optional id
Truthy(x) == x # NULL

(* ------------------------- MobileMessage rows -------------------------- *)

\* Column default of MobileMessage.deliveryStatus, used by a create that does
\* not give the column.
DefaultDeliveryStatus == "delivered"

\* prisma.mobileMessage.create of the broadcast path, one attendee target.
AttendeeRow(eventId, attendeeId, status, t, req) ==
    [id |-> NoId, eventId |-> eventId, attendeeId |-> attendeeId, inviteId |-> NULL,
     status |-> IF status = UNDEF THEN "sent" ELSE status,
     deliveryStatus |-> "delivered", unread |-> TRUE, deliveredAt |-> t,
     req |-> req, origin |-> "createMessage"]

\* prisma.mobileMessage.create of the broadcast path, one invite target.
InviteRow(eventId, inviteId, status, req) ==
    [id |-> NoId, eventId |-> eventId, attendeeId |-> NULL, inviteId |-> inviteId,
     status |-> IF status = UNDEF THEN "sent" ELSE status,
     deliveryStatus |-> "queued", unread |-> TRUE, deliveredAt |-> NoDate,
     req |-> req, origin |-> "createMessage"]

createDirectMessage(eventId, data, t, req) ==
    [id |-> NoId, eventId |-> eventId, attendeeId |-> data.attendeeId, inviteId |-> NULL,
     status |-> IF data.status = UNDEF THEN "sent" ELSE data.status,
     deliveryStatus |-> "delivered", unread |-> TRUE, deliveredAt |-> t,
     req |-> req, origin |-> "createMessage"]

\* A deferred create that marks the row delivered at once.
createQueuedMessage_Delivered(eventId, data, req) ==
    [id |-> NoId, eventId |-> eventId, attendeeId |-> NULL, inviteId |-> data.inviteId,
     status |-> IF data.status = UNDEF THEN "sent" ELSE data.status,
     deliveryStatus |-> "delivered", unread |-> TRUE, deliveredAt |-> NoDate,
     req |-> req, origin |-> "createMessage"]

createQueuedMessage(eventId, data, req) ==
    [id |-> NoId, eventId |-> eventId, attendeeId |-> NULL, inviteId |-> data.inviteId,
     status |-> IF data.status = UNDEF THEN "sent" ELSE data.status,
     deliveryStatus |-> "queued", unread |-> TRUE, deliveredAt |-> NoDate,
     req |-> req, origin |-> "createMessage"]

\* The else branch of createMessage: one row with the payload's attendeeId.
FallbackRow(eventId, data, t, req) ==
    [id |-> NoId, eventId |-> eventId, attendeeId |-> data.attendeeId, inviteId |-> NULL,
     status |-> IF data.status = UNDEF THEN "sent" ELSE data.status,
     deliveryStatus |-> "delivered", unread |-> Truthy(data.attendeeId), deliveredAt |-> t,
     req |-> req, origin |-> "createMessage"]

\* prisma.mobileMessage.create of sendMessage: no deliveryStatus, no deliveredAt.
SendRow(eventId, attendeeId, req) ==
    [id |-> NoId, eventId |-> eventId, attendeeId |-> attendeeId, inviteId |-> NULL,
     status |-> "sent",
     deliveryStatus |-> DefaultDeliveryStatus, unread |-> TRUE, deliveredAt |-> NoDate,
     req |-> req, origin |-> "sendMessage"]

\* An insert that replaces the rows already held for the same recipient.
Insert_ReplacesSameRecipient(msgs, rows) ==
    LET kept == SelectSeq(msgs, LAMBDA m :
                    \A k \in 1..Len(rows) :
                        \/ m.eventId # rows[k].eventId
                        \/ m.attendeeId # rows[k].attendeeId
                        \/ m.inviteId # rows[k].inviteId)
    IN kept \o [k \in 1..Len(rows) |-> [rows[k] EXCEPT !.id = Len(kept) + k]]

\* The table after inserting rows, each new row taking the next id.
Insert(msgs, rows) ==
    msgs \o [k \in 1..Len(rows) |-> [rows[k] EXCEPT !.id = Len(msgs) + k]]

(* --------------------------- audience resolution ----------------------- *)

allAttendees(eventId) == SelectSeq(attendees, LAMBDA a : a.eventId = eventId)

allInvites(eventId) == SelectSeq(invites, LAMBDA i : i.eventId = eventId)

attendeeEmails(eventId) == {a.email : a \in Range(allAttendees(eventId))}

acceptedInviteEmails(eventId) ==
    {i.email : i \in {j \in Range(invites) :
        /\ j.eventId = eventId
        /\ j.email \in attendeeEmails(eventId)
        /\ j.status = "accepted"}}

acceptedAtEmails(eventId) ==
    {a.email : a \in {b \in Range(attendees) :
        /\ b.eventId = eventId
        /\ b.email \in attendeeEmails(eventId)
        /\ b.acceptedAt # NoDate}}

\* An accepted set that consults the invites alone.
allAcceptedEmails_InvitesOnly(eventId) == acceptedInviteEmails(eventId)

allAcceptedEmails(eventId) == acceptedInviteEmails(eventId) \cup acceptedAtEmails(eventId)

\* A resolver that narrows "all" to the accepted attendees as well.
AudienceAttendees_AllIsAccepted(eventId, audience) ==
    IF audience \in {"accepted", "all"}
    THEN SelectSeq(allAttendees(eventId), LAMBDA a : a.email \in allAcceptedEmails(eventId))
    ELSE allAttendees(eventId)

\* The attendees that get a delivered row (audience is not "invited").
AudienceAttendees(eventId, audience) ==
    IF audience = "accepted"
    THEN SelectSeq(allAttendees(eventId), LAMBDA a : a.email \in allAcceptedEmails(eventId))
    ELSE allAttendees(eventId)

\* The condition of the broadcast branch.
IsBroadcast(data) ==
    ~Truthy(data.attendeeId) /\ (data.status = "sent" \/ data.status = UNDEF)

\* A createMessage whose "invited" branch does not return early.
CreateMessageRows_InvitedFallsThrough(eventId, data, t, req) ==
    IF Truthy(data.attendeeId) THEN << createDirectMessage(eventId, data, t, req) >>
    ELSE IF Truthy(data.inviteId) THEN << createQueuedMessage(eventId, data, req) >>
    ELSE IF IsBroadcast(data) THEN
        LET inviteMessages ==
                [k \in 1..Len(allInvites(eventId)) |->
                    InviteRow(eventId, allInvites(eventId)[k].id, data.status, req)]
            targets == AudienceAttendees(eventId, data.audience)
            attendeeMessages ==
                [k \in 1..Len(targets) |->
                    AttendeeRow(eventId, targets[k].id, data.status, t, req)]
        IN attendeeMessages \o inviteMessages
    ELSE << FallbackRow(eventId, data, t, req) >>

\* A createMessage that tests inviteId before attendeeId.
CreateMessageRows_InviteFirst(eventId, data, t, req) ==
    IF Truthy(data.inviteId) THEN << createQueuedMessage(eventId, data, req) >>
    ELSE IF Truthy(data.attendeeId) THEN << createDirectMessage(eventId, data, t, req) >>
    ELSE << FallbackRow(eventId, data, t, req) >>

\* The rows one createMessage call inserts, in insertion order.
CreateMessageRows(eventId, data, t, req) ==
    IF Truthy(data.attendeeId) THEN << createDirectMessage(eventId, data, t, req) >>
    ELSE IF Truthy(data.inviteId) THEN << createQueuedMessage(eventId, data, req) >>
    ELSE IF IsBroadcast(data) THEN
        LET inviteMessages ==
                [k \in 1..Len(allInvites(eventId)) |->
                    InviteRow(eventId, allInvites(eventId)[k].id, data.status, req)]
            targets == AudienceAttendees(eventId, data.audience)
            attendeeMessages ==
                [k \in 1..Len(targets) |->
                    AttendeeRow(eventId, targets[k].id, data.status, t, req)]
        IN IF data.audience = "invited" THEN inviteMessages
           ELSE attendeeMessages \o inviteMessages
    ELSE << FallbackRow(eventId, data, t, req) >>

(* ------------------------------ the calls ------------------------------ *)

\* The record of a handler call: its arguments and what it returned.
Call(op, eventId, attendeeId, inviteId, audience, status, msgId, result) ==
    [op |-> op, eventId |-> eventId, attendeeId |-> attendeeId, inviteId |-> inviteId,
     audience |-> audience, status |-> status, msgId |-> msgId, result |-> result,
     email |-> NULL,
     repeat |-> /\ lastCall.op = op
                /\ lastCall.eventId = eventId
                /\ lastCall.attendeeId = attendeeId
                /\ lastCall.inviteId = inviteId
                /\ lastCall.audience = audience
                /\ lastCall.status = status
                /\ lastCall.msgId = msgId]

NoCall ==
    [op |-> "none", eventId |-> NULL, attendeeId |-> NULL, inviteId |-> NULL,
     audience |-> UNDEF, status |-> UNDEF, msgId |-> NoId, result |-> NoId,
     email |-> NULL, repeat |-> FALSE]

\* The payloads of createMessage: a recipient or an audience and status.
Payloads ==
    {d \in [attendeeId : AttendeeIds \cup {NULL}, inviteId : InviteIds \cup {NULL},
            audience : Audiences, status : StatusIn] :
        /\ (Truthy(d.attendeeId) \/ Truthy(d.inviteId))
                => (d.audience = UNDEF /\ d.status = UNDEF)
        /\ (Truthy(d.attendeeId) /\ Truthy(d.inviteId))
                => (d.attendeeId = "a1" /\ d.inviteId = "i1")}

createMessage(eventId, data) ==
    /\ now < MaxNow
    /\ LET rows == CreateMessageRows(eventId, data, now, now)
       IN /\ Len(messages) + Len(rows) <= MaxMsgs
          /\ messages' = Insert(messages, rows)
          /\ lastCall' = Call("createMessage", eventId, data.attendeeId, data.inviteId,
                              data.audience, data.status, NoId,
                              IF rows = << >> THEN NoId ELSE Len(messages) + 1)
    /\ now' = now + 1
    /\ UNCHANGED <<attendees, invites, broadcasts, promoted, calls>>

\* MessagesController.transformToDto of what the service returned (a message
\* id, or NoId for undefined): reading message.id of undefined throws.
transformToDto(message) ==
    IF message \in MessageIds
    THEN [error |-> NoId, id |-> messages[message].id,
          eventId |-> messages[message].eventId,
          attendeeId |-> IF Truthy(messages[message].attendeeId)
                         THEN messages[message].attendeeId ELSE UNDEF,
          inviteId |-> IF Truthy(messages[message].inviteId)
                       THEN messages[message].inviteId ELSE UNDEF,
          deliveryStatus |-> messages[message].deliveryStatus]
    ELSE [error |-> TypeError, id |-> NoId, eventId |-> UNDEF, attendeeId |-> UNDEF,
          inviteId |-> UNDEF, deliveryStatus |-> UNDEF]

\* MessagesController.createMessage: the response to POST /messages, given
\* what MessagesService.createMessage returned; an error is logged and rethrown.
createMessageEndpoint(message) == transformToDto(message)

(* ----------------------- deliverQueuedMessages -------------------------- *)

\* where clause of the findMany of deliverQueuedMessages
FindQueuedWhere(m, inviteId) == m.inviteId = inviteId /\ m.deliveryStatus = "queued"

\* An updateMany that selects by invite alone.
UpdateQueuedWhere_AnyStatus(m, inviteId) == m.inviteId = inviteId

\* where clause of the updateMany of deliverQueuedMessages
UpdateQueuedWhere(m, inviteId) == m.inviteId = inviteId /\ m.deliveryStatus = "queued"

\* An updateMany that leaves the rows queued.
UpdateQueuedData_KeepsQueued(m, attendeeId, t) ==
    [m EXCEPT !.attendeeId = attendeeId, !.deliveredAt = t]

\* An updateMany that does not backfill the attendee.
UpdateQueuedData_NoAttendee(m, attendeeId, t) ==
    [m EXCEPT !.deliveryStatus = "delivered", !.deliveredAt = t]

\* An updateMany that also clears the invite reference.
UpdateQueuedData_ClearsInvite(m, attendeeId, t) ==
    [m EXCEPT !.attendeeId = attendeeId, !.deliveryStatus = "delivered",
              !.deliveredAt = t, !.inviteId = NULL]

\* data of the updateMany of deliverQueuedMessages
UpdateQueuedData(m, attendeeId, t) ==
    [m EXCEPT !.attendeeId = attendeeId, !.deliveryStatus = "delivered", !.deliveredAt = t]

\* A fetch/iterate/write loop: one step writes only the first matching row.
updateMany_OneRowPerStep(msgs, inviteId, attendeeId, t) ==
    [k \in 1..Len(msgs) |->
        IF /\ UpdateQueuedWhere(msgs[k], inviteId)
           /\ \A j \in 1..(k - 1) : ~UpdateQueuedWhere(msgs[j], inviteId)
        THEN UpdateQueuedData(msgs[k], attendeeId, t)
        ELSE msgs[k]]

\* prisma.mobileMessage.updateMany: one statement over every matching row.
updateMany(msgs, inviteId, attendeeId, t) ==
    [k \in 1..Len(msgs) |->
        IF UpdateQueuedWhere(msgs[k], inviteId)
        THEN UpdateQueuedData(msgs[k], attendeeId, t)
        ELSE msgs[k]]

updateManyCount(msgs, inviteId) ==
    Cardinality({k \in 1..Len(msgs) : UpdateQueuedWhere(msgs[k], inviteId)})

queuedMessages(msgs, inviteId) ==
    {k \in 1..Len(msgs) : FindQueuedWhere(msgs[k], inviteId)}

deliverQueuedMessages(inviteId, attendeeId) ==
    /\ now < MaxNow
    /\ IF queuedMessages(messages, inviteId) = {}
       THEN /\ messages' = messages
            /\ lastCall' = Call("deliverQueuedMessages", NULL, attendeeId, inviteId,
                                UNDEF, UNDEF, NoId, 0)
       ELSE /\ messages' = updateMany(messages, inviteId, attendeeId, now)
            /\ lastCall' = Call("deliverQueuedMessages", NULL, attendeeId, inviteId,
                                UNDEF, UNDEF, NoId, updateManyCount(messages, inviteId))
    /\ promoted' = promoted \cup {inviteId}
    /\ now' = now + 1
    /\ UNCHANGED <<attendees, invites, broadcasts, calls>>

(* --------------------- updateMessage, sendMessage ---------------------- *)

\* Bodies of PUT /messages/:id: the columns a request sets (UNDEF: not given).
UpdateBodies ==
    {d \in [deliveryStatus : {UNDEF, "queued", "delivered"},
            attendeeId : {UNDEF, NULL, "a2"},
            inviteId : {UNDEF, NULL}] :
        Cardinality({f \in {"deliveryStatus", "attendeeId", "inviteId"} : d[f] # UNDEF}) = 1}

\* data: { ...data, eventId } of prisma.mobileMessage.update
UpdateData(m, eventId, data) ==
    [m EXCEPT !.eventId = eventId,
              !.deliveryStatus = IF data.deliveryStatus = UNDEF THEN @ ELSE data.deliveryStatus,
              !.attendeeId = IF data.attendeeId = UNDEF THEN @ ELSE data.attendeeId,
              !.inviteId = IF data.inviteId = UNDEF THEN @ ELSE data.inviteId]

updateMessage(eventId, id, data) ==
    /\ now < MaxNow
    /\ IF id \in MessageIds
       THEN /\ messages' = [messages EXCEPT ![id] = UpdateData(@, eventId, data)]
            /\ lastCall' = Call("updateMessage", eventId, data.attendeeId, data.inviteId,
                                UNDEF, data.deliveryStatus, id, id)
       ELSE /\ messages' = messages
            /\ lastCall' = Call("updateMessage", eventId, data.attendeeId, data.inviteId,
                                UNDEF, data.deliveryStatus, id, NotFoundException)
    /\ now' = now + 1
    /\ UNCHANGED <<attendees, invites, broadcasts, promoted, calls>>

\* findFirst({ id, eventId }) on a table
FindFirst(table, id, eventId) ==
    {k \in 1..Len(table) : table[k].id = id /\ table[k].eventId = eventId}

sendMessage(eventId, messageId) ==
    /\ now < MaxNow
    /\ LET message == FindFirst(messages, messageId, eventId)
           broadcast == FindFirst(broadcasts, messageId, eventId)
           targets == allAttendees(eventId)
           rows == [k \in 1..Len(targets) |-> SendRow(eventId, targets[k].id, now)]
       IN IF message = {} /\ broadcast = {}
          THEN /\ UNCHANGED <<messages, broadcasts>>
               /\ lastCall' = Call("sendMessage", eventId, NULL, NULL, UNDEF, UNDEF,
                                   messageId, NotFoundException)
          ELSE /\ Len(messages) + Len(rows) <= MaxMsgs
               /\ messages' = Insert(messages, rows)
               /\ broadcasts' = IF message = {}
                                THEN [k \in 1..Len(broadcasts) |->
                                        IF broadcasts[k].id = messageId
                                        THEN [broadcasts[k] EXCEPT !.status = "sent"]
                                        ELSE broadcasts[k]]
                                ELSE broadcasts
               /\ lastCall' = Call("sendMessage", eventId, NULL, NULL, UNDEF, UNDEF,
                                   messageId,
                                   IF rows # << >> THEN Len(messages) + 1
                                   ELSE IF message # {} THEN messageId ELSE NoId)
    /\ now' = now + 1
    /\ UNCHANGED <<attendees, invites, promoted, calls>>

(* ------------------------------ MobileService -------------------------- *)

\* A whereClause without the deliveryStatus restriction.
MobileWhere_AnyStatus(m, eventId, attendeeId) ==
    /\ m.eventId = eventId
    /\ (Truthy(attendeeId) => m.attendeeId = attendeeId)

\* A whereClause without the event restriction.
MobileWhere_AnyEvent(m, eventId, attendeeId) ==
    /\ m.deliveryStatus = "delivered"
    /\ (Truthy(attendeeId) => m.attendeeId = attendeeId)

\* whereClause of getMobileMessages
MobileWhere(m, eventId, attendeeId) ==
    /\ m.eventId = eventId
    /\ m.deliveryStatus = "delivered"
    /\ (Truthy(attendeeId) => m.attendeeId = attendeeId)

\* mapMessageToDto: the columns a recipient is sent.
mapMessageToDto(m) ==
    [id |-> m.id, eventId |-> m.eventId, attendeeId |-> m.attendeeId, unread |-> m.unread]

\* getMobileMessages: the matching rows newest first, and their count.
getMobileMessages(eventId, attendeeId) ==
    LET found == Reverse(SelectSeq(messages, LAMBDA m : MobileWhere(m, eventId, attendeeId)))
    IN [data |-> [k \in 1..Len(found) |-> mapMessageToDto(found[k])],
        total |-> Cardinality({k \in MessageIds :
                        MobileWhere(messages[k], eventId, attendeeId)}),
        pageSize |-> Len(found)]

\* The ids of the messages a listing returns.
DataIds(response) == {dto.id : dto \in Range(response.data)}

\* where clause of getMobileMessage
MobileMessageWhere(m, eventId, messageId) == m.id = messageId /\ m.eventId = eventId

\* getMobileMessage: the message returned (none: NotFoundException).
getMobileMessage(eventId, messageId) ==
    {mapMessageToDto(m) : m \in {r \in Range(messages) :
                                    MobileMessageWhere(r, eventId, messageId)}}

AcknowledgeData_Toggles(m) == [m EXCEPT !.unread = ~@]

\* data of acknowledgeMessage's update: { unread: false }
AcknowledgeData(m) == [m EXCEPT !.unread = FALSE]

acknowledgeMessage(messageId) ==
    /\ now < MaxNow
    /\ IF messageId \in MessageIds
       THEN /\ messages' = [messages EXCEPT ![messageId] = AcknowledgeData(@)]
            /\ lastCall' = Call("acknowledgeMessage", NULL, NULL, NULL, UNDEF, UNDEF,
                                messageId, messageId)
       ELSE /\ messages' = messages
            /\ lastCall' = Call("acknowledgeMessage", NULL, NULL, NULL, UNDEF, UNDEF,
                                messageId, NotFoundException)
    /\ now' = now + 1
    /\ UNCHANGED <<attendees, invites, broadcasts, promoted, calls>>

(* ----------------------------- specification --------------------------- *)

\* e1 has attendees a1, a2 and invites i1, i2; e2 has nobody.
Init ==
    /\ attendees = SubSeq(AttendeeRows, 1, 2)
    /\ invites = SubSeq(InviteRows, 1, 2)
    /\ broadcasts = BroadcastRows
    /\ messages = << >>
    /\ now = 0
    /\ lastCall = NoCall
    /\ promoted = {}
    /\ calls = << >>

Next ==
    \/ \E eventId \in Events, data \in Payloads : createMessage(eventId, data)
    \/ \E inviteId \in InviteIds, attendeeId \in AttendeeIds :
            deliverQueuedMessages(inviteId, attendeeId)
    \/ \E eventId \in Events, id \in MessageIds \cup {NoId}, data \in UpdateBodies :
            updateMessage(eventId, id, data)
    \/ \E eventId \in Events, messageId \in MessageIds \cup {NoId, BroadcastId} :
            sendMessage(eventId, messageId)
    \/ \E messageId \in MessageIds \cup {NoId} : acknowledgeMessage(messageId)

Spec == Init /\ [][Next]_vars

\* The fan-out, promotion and acknowledgement calls alone.
NextFanout ==
    \/ \E eventId \in Events, data \in Payloads : createMessage(eventId, data)
    \/ \E inviteId \in InviteIds, attendeeId \in AttendeeIds :
            deliverQueuedMessages(inviteId, attendeeId)
    \/ \E messageId \in MessageIds \cup {NoId} : acknowledgeMessage(messageId)

SpecFanout == Init /\ [][NextFanout]_vars

(* ------------------- concurrent requests (SpecConc) -------------------- *)

\* Rows of the MobileMessage table in a behaviour of SpecConc.
MaxMsgsConc == 6

Procs == 1..NProcs

\* A request in flight: its arguments, the store call it is at (pc), the targets
\* whose create is still pending, the targets whose create was rejected, what
\* findMany found, and what it returned.
Request(op, pc, eventId, data) ==
    [op |-> op, pc |-> pc, eventId |-> eventId, attendeeId |-> data.attendeeId,
     inviteId |-> data.inviteId, audience |-> data.audience, status |-> data.status,
     pendA |-> {}, pendI |-> {}, firstA |-> NULL, firstI |-> NULL,
     repA |-> NoId, repI |-> NoId, found |-> 0, result |-> NoId, failed |-> {},
     email |-> NULL, reads |-> {}, listed |-> {}, total |-> 0]

NoData == [attendeeId |-> NULL, inviteId |-> NULL, audience |-> UNDEF, status |-> UNDEF]

IdleRequest == Request("idle", "idle", NULL, NoData)

\* The payloads SpecConc interleaves, all sent to event e1.
PayloadsConc ==
    {d \in Payloads :
        /\ d.attendeeId \in {NULL, "a1"}
        /\ ~(Truthy(d.attendeeId) /\ Truthy(d.inviteId))
        /\ d.status = UNDEF}

StartCreateMessage(p, eventId, data) ==
    /\ calls[p].op = "idle"
    /\ \A q \in 1..(p - 1) : calls[q].op # "idle"
    /\ calls' = [calls EXCEPT ![p] =
            Request("createMessage",
                    IF ~Truthy(data.attendeeId) /\ ~Truthy(data.inviteId) /\ IsBroadcast(data)
                    THEN "findAttendees" ELSE "create",
                    eventId, data)]
    /\ UNCHANGED <<attendees, invites, broadcasts, messages, now, lastCall, promoted>>

\* createDirectMessage, createQueuedMessage or the fallback create: one store call.
CreateSingle(p) ==
    /\ calls[p].op = "createMessage" /\ calls[p].pc = "create"
    /\ Len(messages) < MaxMsgsConc
    /\ messages' = Insert(messages, CreateMessageRows(calls[p].eventId, calls[p], now, p))
    /\ now' = now + 1
    /\ calls' = [calls EXCEPT ![p].pc = "done", ![p].result = Len(messages) + 1]
    /\ UNCHANGED <<attendees, invites, broadcasts, lastCall, promoted>>

\* The reads that resolve the attendee targets of a broadcast.
ResolveAttendees(p) ==
    /\ calls[p].op = "createMessage" /\ calls[p].pc = "findAttendees"
    /\ LET targets == AudienceAttendees(calls[p].eventId, calls[p].audience)
           ids == {targets[k].id : k \in 1..Len(targets)}
       IN calls' = [calls EXCEPT
            ![p].pendA = IF calls[p].audience = "invited" THEN {} ELSE ids,
            ![p].firstA = IF calls[p].audience = "invited" \/ targets = << >>
                          THEN NULL ELSE targets[1].id,
            ![p].pc = IF calls[p].audience = "invited" \/ targets = << >>
                      THEN "findInvites" ELSE "createAttendeeMessages"]
    /\ UNCHANGED <<attendees, invites, broadcasts, messages, now, lastCall, promoted>>

\* One create of the Promise.all over the attendee targets, in any order.
CreateAttendeeMessage(p, attendeeId) ==
    /\ calls[p].op = "createMessage" /\ calls[p].pc = "createAttendeeMessages"
    /\ attendeeId \in calls[p].pendA
    /\ Len(messages) < MaxMsgsConc
    /\ messages' = Insert(messages,
            << AttendeeRow(calls[p].eventId, attendeeId, calls[p].status, now, p) >>)
    /\ now' = now + 1
    /\ calls' = [calls EXCEPT
            ![p].pendA = @ \ {attendeeId},
            ![p].repA = IF attendeeId = calls[p].firstA THEN Len(messages) + 1 ELSE @,
            ![p].pc = IF calls[p].pendA # {attendeeId} THEN @
                      ELSE IF calls[p].result = StoreError THEN "done" ELSE "findInvites"]
    /\ UNCHANGED <<attendees, invites, broadcasts, lastCall, promoted>>

\* prisma.invite.findMany({ eventId }) of the broadcast path.
FindInvites(p) ==
    /\ calls[p].op = "createMessage" /\ calls[p].pc = "findInvites"
    /\ LET targets == allInvites(calls[p].eventId)
           rep == IF calls[p].repA # NoId THEN calls[p].repA ELSE NoId
       IN calls' = [calls EXCEPT
            ![p].pendI = {targets[k].id : k \in 1..Len(targets)},
            ![p].firstI = IF targets = << >> THEN NULL ELSE targets[1].id,
            ![p].pc = IF targets = << >> THEN "done" ELSE "createInviteMessages",
            ![p].result = IF targets = << >> THEN rep ELSE @]
    /\ UNCHANGED <<attendees, invites, broadcasts, messages, now, lastCall, promoted>>

\* One create of the Promise.all over the invite targets, in any order.
CreateInviteMessage(p, inviteId) ==
    /\ calls[p].op = "createMessage" /\ calls[p].pc = "createInviteMessages"
    /\ inviteId \in calls[p].pendI
    /\ Len(messages) < MaxMsgsConc
    /\ messages' = Insert(messages,
            << InviteRow(calls[p].eventId, inviteId, calls[p].status, p) >>)
    /\ now' = now + 1
    /\ LET repI == IF inviteId = calls[p].firstI THEN Len(messages) + 1 ELSE calls[p].repI
       IN calls' = [calls EXCEPT
            ![p].pendI = @ \ {inviteId},
            ![p].repI = repI,
            ![p].pc = IF calls[p].pendI = {inviteId} THEN "done" ELSE @,
            ![p].result = IF calls[p].pendI = {inviteId} /\ calls[p].result # StoreError
                          THEN (IF calls[p].repA # NoId THEN calls[p].repA ELSE repI)
                          ELSE @]
    /\ UNCHANGED <<attendees, invites, broadcasts, lastCall, promoted>>

StartDeliverQueuedMessages(p, inviteId, attendeeId) ==
    /\ calls[p].op = "idle"
    /\ \A q \in 1..(p - 1) : calls[q].op # "idle"
    /\ calls' = [calls EXCEPT ![p] =
            Request("deliverQueuedMessages", "findMany", NULL,
                    [NoData EXCEPT !.inviteId = inviteId, !.attendeeId = attendeeId])]
    /\ UNCHANGED <<attendees, invites, broadcasts, messages, now, lastCall, promoted>>

\* The findMany of deliverQueuedMessages and the early return on an empty result.
FindQueued(p) ==
    /\ calls[p].op = "deliverQueuedMessages" /\ calls[p].pc = "findMany"
    /\ LET n == Cardinality(queuedMessages(messages, calls[p].inviteId))
       IN calls' = [calls EXCEPT
            ![p].found = n,
            ![p].pc = IF n = 0 THEN "done" ELSE "updateMany",
            ![p].result = 0]
    /\ promoted' = IF Cardinality(queuedMessages(messages, calls[p].inviteId)) = 0
                   THEN promoted \cup {calls[p].inviteId} ELSE promoted
    /\ UNCHANGED <<attendees, invites, broadcasts, messages, now, lastCall>>

\* The updateMany of deliverQueuedMessages and the return of its count.
UpdateQueued(p) ==
    /\ calls[p].op = "deliverQueuedMessages" /\ calls[p].pc = "updateMany"
    /\ messages' = updateMany(messages, calls[p].inviteId, calls[p].attendeeId, now)
    /\ now' = now + 1
    /\ calls' = [calls EXCEPT
            ![p].pc = "done",
            ![p].result = updateManyCount(messages, calls[p].inviteId)]
    /\ promoted' = promoted \cup {calls[p].inviteId}
    /\ UNCHANGED <<attendees, invites, broadcasts, lastCall>>

\* The table after one createMessage("e1", { inviteId: "i1" }) at time 0.
QueuedForInvite ==
    Insert(<< >>, CreateMessageRows("e1", [NoData EXCEPT !.inviteId = "i1"], 0, 0))

\* The table after a second such call at time 1.
QueuedTwiceForInvite ==
    Insert(QueuedForInvite,
           CreateMessageRows("e1", [NoData EXCEPT !.inviteId = "i1"], 1, 0))

\* e1 has attendee a1 and invite i1 (the same person); a3 attends e2. The
\* message table is empty, or holds the rows of earlier createMessage calls
\* for i1.
InitConc ==
    /\ attendees = << AttendeeRows[1], AttendeeRows[3] >>
    /\ invites = << InviteRows[1] >>
    /\ broadcasts = BroadcastRows
    /\ messages \in {<< >>, QueuedForInvite, QueuedTwiceForInvite}
    /\ now = Len(messages)
    /\ lastCall = NoCall
    /\ promoted = {}
    /\ calls = [p \in Procs |-> IdleRequest]

NextConc ==
    \/ \E p \in Procs, data \in PayloadsConc : StartCreateMessage(p, "e1", data)
    \/ \E p \in Procs : CreateSingle(p)
    \/ \E p \in Procs : ResolveAttendees(p)
    \/ \E p \in Procs, attendeeId \in AttendeeIds : CreateAttendeeMessage(p, attendeeId)
    \/ \E p \in Procs : FindInvites(p)
    \/ \E p \in Procs, inviteId \in InviteIds : CreateInviteMessage(p, inviteId)
    \/ \E p \in Procs, inviteId \in InviteIds, attendeeId \in AttendeeIds :
            StartDeliverQueuedMessages(p, inviteId, attendeeId)
    \/ \E p \in Procs : FindQueued(p)
    \/ \E p \in Procs : UpdateQueued(p)

SpecConc == InitConc /\ [][NextConc]_vars

(* ------------------ invite acceptance (SpecAccept) --------------------- *)

\* The id the store gives an attendee created for (eventId, email).
NewAttendeeId ==
    [e1 |-> [x |-> "n1x", y |-> "n1y", z |-> "n1z", w |-> "n1w"],
     e2 |-> [x |-> "n2x", y |-> "n2y", z |-> "n2z", w |-> "n2w"]]

\* getAttendeeByEmail: the attendee of (eventId, email); when there is none,
\* one is created from an invite for the email, looked up in the event and
\* then in every event; NotFoundException when no invite has the email.
getAttendeeByEmail(eventId, email) ==
    /\ now < MaxNow
    /\ LET attendee == {a \in Range(attendees) : a.email = email /\ a.eventId = eventId}
           invite == {i \in Range(invites) : i.email = email}
           created == [id |-> NewAttendeeId[eventId][email], eventId |-> eventId,
                       email |-> email, acceptedAt |-> NoDate]
       IN IF attendee # {}
          THEN /\ attendees' = attendees
               /\ lastCall' = [Call("getAttendeeByEmail", eventId,
                                    (CHOOSE a \in attendee : TRUE).id, NULL,
                                    UNDEF, UNDEF, NoId, Ok) EXCEPT !.email = email]
          ELSE IF invite = {}
          THEN /\ attendees' = attendees
               /\ lastCall' = [Call("getAttendeeByEmail", eventId, NULL, NULL,
                                    UNDEF, UNDEF, NoId, NotFoundException)
                                    EXCEPT !.email = email]
          ELSE /\ attendees' = Append(attendees, created)
               /\ lastCall' = [Call("getAttendeeByEmail", eventId, created.id, NULL,
                                    UNDEF, UNDEF, NoId, Ok) EXCEPT !.email = email]
    /\ now' = now + 1
    /\ UNCHANGED <<invites, broadcasts, messages, promoted, calls>>

\* api.acceptInvite of the mobile client, pressed by the holder of an invite:
\* it sends no request and reports success.
acceptInvite(inviteId) ==
    /\ now < MaxNow
    /\ lastCall' = Call("acceptInvite", NULL, NULL, inviteId, UNDEF, UNDEF, NoId, Ok)
    /\ now' = now + 1
    /\ UNCHANGED <<attendees, invites, broadcasts, messages, promoted, calls>>

\* The calls the sources make around an acceptance: messages are created, the
\* invitee signs in (getAttendeeByEmail) and accepts (acceptInvite).
NextAccept ==
    \/ \E eventId \in Events, data \in Payloads : createMessage(eventId, data)
    \/ \E eventId \in Events, email \in Emails : getAttendeeByEmail(eventId, email)
    \/ \E inviteId \in InviteIds : acceptInvite(inviteId)

SpecAccept == Init /\ [][NextAccept]_vars

(* ----------------- rejected store calls (SpecFaulty) ------------------- *)

\* One create of the Promise.all over the attendee targets is rejected: the
\* Promise.all rejects and createMessage throws. The other creates of the
\* batch are already issued and still reach the store.
FailAttendeeMessage(p, attendeeId) ==
    /\ calls[p].op = "createMessage" /\ calls[p].pc = "createAttendeeMessages"
    /\ attendeeId \in calls[p].pendA
    /\ calls' = [calls EXCEPT
            ![p].pendA = @ \ {attendeeId},
            ![p].failed = @ \cup {attendeeId},
            ![p].result = StoreError,
            ![p].pc = IF calls[p].pendA = {attendeeId} THEN "done" ELSE @]
    /\ UNCHANGED <<attendees, invites, broadcasts, messages, now, lastCall, promoted>>

\* One create of the Promise.all over the invite targets is rejected.
FailInviteMessage(p, inviteId) ==
    /\ calls[p].op = "createMessage" /\ calls[p].pc = "createInviteMessages"
    /\ inviteId \in calls[p].pendI
    /\ calls' = [calls EXCEPT
            ![p].pendI = @ \ {inviteId},
            ![p].failed = @ \cup {inviteId},
            ![p].result = StoreError,
            ![p].pc = IF calls[p].pendI = {inviteId} THEN "done" ELSE @]
    /\ UNCHANGED <<attendees, invites, broadcasts, messages, now, lastCall, promoted>>

\* e1 has attendees a1 and a4 and invite i1; no message yet.
InitFaulty ==
    /\ attendees = << AttendeeRows[1], AttendeeRows[4] >>
    /\ invites = << InviteRows[1] >>
    /\ broadcasts = BroadcastRows
    /\ messages = << >>
    /\ now = 0
    /\ lastCall = NoCall
    /\ promoted = {}
    /\ calls = [p \in Procs |-> IdleRequest]

NextFaulty ==
    \/ \E p \in Procs, data \in PayloadsConc : StartCreateMessage(p, "e1", data)
    \/ \E p \in Procs : CreateSingle(p)
    \/ \E p \in Procs : ResolveAttendees(p)
    \/ \E p \in Procs, attendeeId \in AttendeeIds : CreateAttendeeMessage(p, attendeeId)
    \/ \E p \in Procs, attendeeId \in AttendeeIds : FailAttendeeMessage(p, attendeeId)
    \/ \E p \in Procs : FindInvites(p)
    \/ \E p \in Procs, inviteId \in InviteIds : CreateInviteMessage(p, inviteId)
    \/ \E p \in Procs, inviteId \in InviteIds : FailInviteMessage(p, inviteId)

SpecFaulty == InitFaulty /\ [][NextFaulty]_vars

(* ------------- one request, any population (SpecAudience) ------------- *)

\* createMessage calls in one behaviour of SpecAudience.
MaxRequests == 1

\* The tables that hold some of the given rows.
SubTables(rows) ==
    {SelectSeq(rows, LAMBDA r : r.id \in ids) : ids \in SUBSET {r.id : r \in Range(rows)}}

\* Any attendees and invites, and no message yet.
InitAudience ==
    /\ attendees \in SubTables(AttendeeRows)
    /\ invites \in SubTables(InviteRows)
    /\ broadcasts = BroadcastRows
    /\ messages = << >>
    /\ now = 0
    /\ lastCall = NoCall
    /\ promoted = {}
    /\ calls = << >>

NextAudience ==
    \E eventId \in Events, data \in Payloads :
        now < MaxRequests /\ createMessage(eventId, data)

SpecAudience == InitAudience /\ [][NextAudience]_vars

(* ---------------- concurrent sign-ins (SpecSignIn) --------------------- *)

\* The requests SpecSignIn interleaves: an attendee that exists (e1, x), ones
\* that an invite of the event (e1, z) or of another event (e2, x; e2, z)
\* lets the call create, and an email nobody invited (e1, w).
SignIns == {<<"e1", "x">>, <<"e1", "z">>, <<"e2", "x">>, <<"e2", "z">>, <<"e1", "w">>}

StartGetAttendeeByEmail(p, eventId, email) ==
    /\ calls[p].op = "idle"
    /\ \A q \in 1..(p - 1) : calls[q].op # "idle"
    /\ calls' = [calls EXCEPT ![p] =
            [Request("getAttendeeByEmail", "findAttendee", eventId, NoData)
                EXCEPT !.email = email]]
    /\ UNCHANGED <<attendees, invites, broadcasts, messages, now, lastCall, promoted>>

\* The attendee rows of (eventId, email).
AttendeeOf(eventId, email) ==
    {a \in Range(attendees) : a.email = email /\ a.eventId = eventId}

\* prisma.attendee.findFirst({ email, eventId }), then the same search
\* ignoring case: an attendee found is returned.
FindAttendee(p) ==
    /\ calls[p].op = "getAttendeeByEmail" /\ calls[p].pc = "findAttendee"
    /\ LET attendee == AttendeeOf(calls[p].eventId, calls[p].email)
       IN calls' = [calls EXCEPT
            ![p].pc = IF attendee = {} THEN "findInvite" ELSE "done",
            ![p].attendeeId = IF attendee = {} THEN NULL
                              ELSE (CHOOSE a \in attendee : TRUE).id,
            ![p].result = IF attendee = {} THEN NoId ELSE Ok]
    /\ UNCHANGED <<attendees, invites, broadcasts, messages, now, lastCall, promoted>>

\* The invite searches, in the event and then in every event:
\* NotFoundException when no invite has the email.
FindInvite(p) ==
    /\ calls[p].op = "getAttendeeByEmail" /\ calls[p].pc = "findInvite"
    /\ LET invite == {i \in Range(invites) : i.email = calls[p].email}
       IN calls' = [calls EXCEPT
            ![p].pc = IF invite = {} THEN "done" ELSE "findExisting",
            ![p].result = IF invite = {} THEN NotFoundException ELSE NoId]
    /\ UNCHANGED <<attendees, invites, broadcasts, messages, now, lastCall, promoted>>

\* The second prisma.attendee.findFirst({ email, eventId }), before the create.
FindExisting(p) ==
    /\ calls[p].op = "getAttendeeByEmail" /\ calls[p].pc = "findExisting"
    /\ LET attendee == AttendeeOf(calls[p].eventId, calls[p].email)
       IN calls' = [calls EXCEPT
            ![p].pc = IF attendee = {} THEN "create" ELSE "done",
            ![p].attendeeId = IF attendee = {} THEN NULL
                              ELSE (CHOOSE a \in attendee : TRUE).id,
            ![p].result = IF attendee = {} THEN NoId ELSE Ok]
    /\ UNCHANGED <<attendees, invites, broadcasts, messages, now, lastCall, promoted>>

\* prisma.attendee.create: the unique index on (eventId, email) rejects a
\* second row, and the call rethrows that error.
CreateAttendee(p) ==
    /\ calls[p].op = "getAttendeeByEmail" /\ calls[p].pc = "create"
    /\ IF AttendeeOf(calls[p].eventId, calls[p].email) # {}
       THEN /\ attendees' = attendees
            /\ calls' = [calls EXCEPT ![p].pc = "done", ![p].result = StoreError]
       ELSE /\ attendees' = Append(attendees,
                    [id |-> NewAttendeeId[calls[p].eventId][calls[p].email],
                     eventId |-> calls[p].eventId, email |-> calls[p].email,
                     acceptedAt |-> NoDate])
            /\ calls' = [calls EXCEPT
                    ![p].pc = "done", ![p].result = Ok,
                    ![p].attendeeId = NewAttendeeId[calls[p].eventId][calls[p].email]]
    /\ UNCHANGED <<invites, broadcasts, messages, now, lastCall, promoted>>

InitSignIn ==
    /\ attendees = SubSeq(AttendeeRows, 1, 2)
    /\ invites = SubSeq(InviteRows, 1, 2)
    /\ broadcasts = BroadcastRows
    /\ messages = << >>
    /\ now = 0
    /\ lastCall = NoCall
    /\ promoted = {}
    /\ calls = [p \in Procs |-> IdleRequest]

NextSignIn ==
    \/ \E p \in Procs, args \in SignIns : StartGetAttendeeByEmail(p, args[1], args[2])
    \/ \E p \in Procs : FindAttendee(p)
    \/ \E p \in Procs : FindInvite(p)
    \/ \E p \in Procs : FindExisting(p)
    \/ \E p \in Procs : CreateAttendee(p)

SpecSignIn == InitSignIn /\ [][NextSignIn]_vars

(* ------------- a listing that races with writes (SpecRead) -------------- *)

\* getMobileMessages issues its two store reads together and awaits both
\* (Promise.all): each is a separate query, answered in either order, and
\* writes of other requests may commit between them.
StartGetMobileMessages(p, eventId, attendeeId) ==
    /\ calls[p].op = "idle"
    /\ \A q \in 1..(p - 1) : calls[q].op # "idle"
    /\ calls' = [calls EXCEPT ![p] =
            [Request("getMobileMessages", "reading", eventId, NoData)
                EXCEPT !.attendeeId = attendeeId]]
    /\ UNCHANGED <<attendees, invites, broadcasts, messages, now, lastCall, promoted>>

\* The call returns once both reads have answered.
AfterRead(p, read) ==
    IF calls[p].reads \cup {read} = {"findMany", "count"} THEN "done" ELSE "reading"

\* prisma.mobileMessage.findMany({ where: whereClause }): the data list.
ReadFindMany(p) ==
    /\ calls[p].op = "getMobileMessages" /\ calls[p].pc = "reading"
    /\ "findMany" \notin calls[p].reads
    /\ calls' = [calls EXCEPT
            ![p].listed = DataIds(getMobileMessages(calls[p].eventId, calls[p].attendeeId)),
            ![p].reads = @ \cup {"findMany"},
            ![p].pc = AfterRead(p, "findMany")]
    /\ UNCHANGED <<attendees, invites, broadcasts, messages, now, lastCall, promoted>>

\* prisma.mobileMessage.count({ where: whereClause }): the total.
ReadCount(p) ==
    /\ calls[p].op = "getMobileMessages" /\ calls[p].pc = "reading"
    /\ "count" \notin calls[p].reads
    /\ calls' = [calls EXCEPT
            ![p].total = getMobileMessages(calls[p].eventId, calls[p].attendeeId).total,
            ![p].reads = @ \cup {"count"},
            ![p].pc = AfterRead(p, "count")]
    /\ UNCHANGED <<attendees, invites, broadcasts, messages, now, lastCall, promoted>>

\* The writes that race with the listing: a direct message to a1, a deferred
\* one for i1, and the promotion of i1's queue to a1.
WritePayloads ==
    {d \in Payloads : /\ d.audience = UNDEF /\ d.status = UNDEF
                      /\ d.attendeeId \in {"a1", NULL} /\ d.inviteId \in {"i1", NULL}
                      /\ ~(Truthy(d.attendeeId) /\ Truthy(d.inviteId))}

InitRead ==
    /\ attendees = SubSeq(AttendeeRows, 1, 2)
    /\ invites = SubSeq(InviteRows, 1, 2)
    /\ broadcasts = BroadcastRows
    /\ messages = << >>
    /\ now = 0
    /\ lastCall = NoCall
    /\ promoted = {}
    /\ calls = [p \in Procs |-> IdleRequest]

NextRead ==
    \/ \E p \in Procs, attendeeId \in {"a1", NULL} :
            StartGetMobileMessages(p, "e1", attendeeId)
    \/ \E p \in Procs : ReadFindMany(p)
    \/ \E p \in Procs : ReadCount(p)
    \/ \E data \in WritePayloads : createMessage("e1", data)
    \/ deliverQueuedMessages("i1", "a1")

SpecRead == InitRead /\ [][NextRead]_vars

(* --------------- one request, any payload (SpecPayload) ---------------- *)

\* An event id and an invite id that no row has.
MissingEvent == "e9"
MissingInvite == "i9"

\* Every payload of createMessage: any recipient fields, audience and status,
\* an inviteId that names no invite included.
AllPayloads ==
    [attendeeId : AttendeeIds \cup {NULL}, inviteId : InviteIds \cup {NULL, MissingInvite},
     audience : Audiences, status : StatusIn]

\* The call would insert a row that references an event or an invite that
\* does not exist.
ReferencesMissing(eventId, data) ==
    \E m \in Range(CreateMessageRows(eventId, data, now, now)) :
        \/ m.eventId \notin Events
        \/ (m.inviteId # NULL /\ m.inviteId \notin InviteIds)

\* createMessage when the store rejects the create of a row whose reference
\* is missing (a foreign-key error of the store, not a NotFoundException).
createMessageRejected(eventId, data) ==
    /\ now < MaxNow
    /\ ReferencesMissing(eventId, data)
    /\ lastCall' = Call("createMessage", eventId, data.attendeeId, data.inviteId,
                        data.audience, data.status, NoId, StoreError)
    /\ now' = now + 1
    /\ UNCHANGED <<attendees, invites, broadcasts, messages, promoted, calls>>

NextPayload ==
    \/ \E eventId \in Events \cup {MissingEvent}, data \in AllPayloads :
            now < MaxRequests /\ createMessage(eventId, data)
    \/ \E eventId \in Events \cup {MissingEvent}, data \in AllPayloads :
            now < MaxRequests /\ createMessageRejected(eventId, data)

SpecPayload == Init /\ [][NextPayload]_vars

(* ------------------------------- claims -------------------------------- *)

AttendeeFilters == AttendeeIds \cup {NULL}

\* C1: getMobileMessages(eventId, attendeeId?) never returns a queued message,
\* with or without the attendeeId filter.
C1_ListingHasNoQueued ==
    \A eventId \in Events, attendeeId \in AttendeeFilters :
        \A dto \in Range(getMobileMessages(eventId, attendeeId).data) :
            messages[dto.id].deliveryStatus # "queued"

\* A queued row of e1 exists while the listings of e1, with and without the
\* filter, return rows.
C1_Witness ==
    /\ \E m \in Range(messages) : m.eventId = "e1" /\ m.deliveryStatus = "queued"
    /\ Len(getMobileMessages("e1", NULL).data) >= 2
    /\ Len(getMobileMessages("e1", "a1").data) >= 1

\* The messages some recipient-facing read of the event returns.
ReadableIds(eventId) ==
    {dto.id : dto \in
        UNION {Range(getMobileMessages(eventId, a).data) : a \in AttendeeFilters}
        \cup UNION {getMobileMessage(eventId, id) : id \in MessageIds}}

\* C2: a message created for an invite is returned by no recipient-facing read
\* (the listing or the fetch by id) before deliverQueuedMessages has run for
\* that invite.
C2_NoReadBeforeAcceptance ==
    \A eventId \in Events : \A id \in ReadableIds(eventId) :
        (messages[id].origin = "createMessage" /\ messages[id].inviteId # NULL)
        => messages[id].inviteId \in promoted

\* C4: no attendee holds more than one delivered message of one createMessage
\* request.
C4_NoDuplicate ==
    \A attendeeId \in AttendeeIds, req \in 0..MaxNow :
        Cardinality({k \in MessageIds :
            /\ messages[k].origin = "createMessage"
            /\ messages[k].req = req
            /\ messages[k].attendeeId = attendeeId
            /\ messages[k].deliveryStatus = "delivered"}) <= 1

\* C5: every queued message has inviteId set and attendeeId null.
C5_QueuedHasInviteOnly ==
    \A m \in Range(messages) :
        m.deliveryStatus = "queued" => (m.inviteId # NULL /\ m.attendeeId = NULL)

\* C6: every delivered message has a deliveredAt.
C6_DeliveredHasDeliveredAt ==
    \A m \in Range(messages) :
        m.deliveryStatus = "delivered" => m.deliveredAt # NoDate

\* C7: every message created by createMessage has exactly one of attendeeId and
\* inviteId set.
C7_ExactlyOneRecipient ==
    \A m \in Range(messages) :
        m.origin = "createMessage" => ((m.attendeeId # NULL) # (m.inviteId # NULL))

\* C8: a deliverQueuedMessages call that directly follows a call with the same
\* arguments returns 0 without error and changes no message.
C8_SecondPromotionIsNoop ==
    [][(/\ lastCall.op = "deliverQueuedMessages"
        /\ lastCall'.op = "deliverQueuedMessages"
        /\ lastCall'.repeat)
       => (/\ lastCall.result >= 0
           /\ lastCall'.result = 0
           /\ messages' = messages)]_vars

\* The second of two equal calls has returned, and the first had promoted a row.
C8_Witness ==
    /\ lastCall.op = "deliverQueuedMessages"
    /\ lastCall.repeat
    /\ lastCall.result = 0
    /\ \E m \in Range(messages) :
        /\ m.inviteId = lastCall.inviteId
        /\ m.attendeeId = lastCall.attendeeId
        /\ m.deliveryStatus = "delivered"
        /\ m.deliveredAt = now - 2

\* C9: deliverQueuedMessages(i, a) gives every queued message of invite i
\* attendeeId a, state delivered and a deliveredAt, and returns the number of
\* messages it changed (0, not an error, when none was queued).
C9_PromotionEffect ==
    [][lastCall'.op = "deliverQueuedMessages"
       => (/\ Len(messages') = Len(messages)
           /\ \A k \in MessageIds :
                (messages[k].inviteId = lastCall'.inviteId
                    /\ messages[k].deliveryStatus = "queued")
                => (/\ messages'[k].attendeeId = lastCall'.attendeeId
                    /\ messages'[k].deliveryStatus = "delivered"
                    /\ messages'[k].deliveredAt # NoDate)
           /\ lastCall'.result = Cardinality({k \in MessageIds : messages'[k] # messages[k]})
           /\ lastCall'.result =
                Cardinality({k \in MessageIds :
                    /\ messages[k].inviteId = lastCall'.inviteId
                    /\ messages[k].deliveryStatus = "queued"}))]_vars

\* A call has promoted two queued rows at once.
C9_Witness ==
    /\ lastCall.op = "deliverQueuedMessages"
    /\ lastCall.result = 2
    /\ Cardinality({k \in MessageIds :
            /\ messages[k].inviteId = lastCall.inviteId
            /\ messages[k].attendeeId = lastCall.attendeeId
            /\ messages[k].deliveredAt = now - 1}) = 2

\* No request of SpecConc is between two store calls.
Quiescent == \A p \in Procs : calls[p].pc \in {"idle", "done"}

DeliverCalls(inviteId) ==
    {p \in Procs : calls[p].op = "deliverQueuedMessages" /\ calls[p].inviteId = inviteId}

\* C3: once the single deliverQueuedMessages call of invite i and every
\* createMessage call have returned, no message of invite i is queued.
C3_NoMessageLost ==
    \A inviteId \in InviteIds :
        (Quiescent /\ Cardinality(DeliverCalls(inviteId)) = 1)
        => \A m \in Range(messages) : m.inviteId = inviteId => m.deliveryStatus # "queued"

RECURSIVE SumOfCounts(_, _)
\* The sum of the counts returned by the finished promotions of an invite.
SumOfCounts(ps, inviteId) ==
    IF ps = {} THEN 0
    ELSE LET p == CHOOSE q \in ps : TRUE
         IN (IF p \in DeliverCalls(inviteId) /\ calls[p].pc = "done"
             THEN calls[p].result ELSE 0)
            + SumOfCounts(ps \ {p}, inviteId)

\* C10: with concurrent deliverQueuedMessages calls for one invite, the counts
\* returned sum to the number of messages promoted, and a promoted message's
\* attendeeId and deliveredAt are never written again.
C10_ConcurrentPromotion ==
    /\ [](\A inviteId \in InviteIds :
            SumOfCounts(Procs, inviteId) =
                Cardinality({k \in MessageIds :
                    /\ messages[k].inviteId = inviteId
                    /\ messages[k].deliveryStatus = "delivered"}))
    /\ [][\A k \in MessageIds :
            messages[k].deliveryStatus = "delivered"
            => (/\ messages'[k].attendeeId = messages[k].attendeeId
                /\ messages'[k].deliveredAt = messages[k].deliveredAt)]_vars

\* Two promotions of one invite, for different attendees, both found the queued
\* row; one updated it and the other updated nothing.
C10_Witness ==
    \E p, q \in Procs :
        /\ p # q
        /\ p \in DeliverCalls("i1") /\ q \in DeliverCalls("i1")
        /\ calls[p].attendeeId # calls[q].attendeeId
        /\ calls[p].pc = "done" /\ calls[q].pc = "done"
        /\ calls[p].found >= 1 /\ calls[q].found >= 1
        /\ calls[p].result >= 1 /\ calls[q].result = 0

\* The ids a listing of the event returns from a table.
ListedIds(msgs, eventId, attendeeId) ==
    {msgs[k].id : k \in {j \in 1..Len(msgs) : MobileWhere(msgs[j], eventId, attendeeId)}}

\* C11: no step of a promotion delivers some but not all of the messages
\* queued for its invite: a getMobileMessages read or another promotion,
\* running before or after the step, sees all of them queued or all of them
\* delivered.
C11_PromotionIsOneTransition ==
    [][\A inviteId \in InviteIds :
        LET queued == {k \in MessageIds :
                        /\ messages[k].inviteId = inviteId
                        /\ messages[k].deliveryStatus = "queued"}
        IN (\E k \in queued : messages'[k].deliveryStatus = "delivered")
           => /\ \A k \in queued : messages'[k].deliveryStatus = "delivered"
              /\ queued \cap ListedIds(messages, "e1", NULL) = {}
              /\ queued \subseteq ListedIds(messages', "e1", NULL)]_vars

\* Two promotions of one invite both found its two queued rows; one call
\* delivered both rows at one instant and the other changed nothing.
C11_Witness ==
    \E p, q \in Procs :
        /\ p # q
        /\ p \in DeliverCalls("i1") /\ q \in DeliverCalls("i1")
        /\ calls[p].pc = "done" /\ calls[q].pc = "done"
        /\ calls[p].found = 2 /\ calls[q].found = 2
        /\ calls[p].result = 2 /\ calls[q].result = 0
        /\ \E t \in 0..now :
            Cardinality({k \in MessageIds :
                /\ messages[k].inviteId = "i1"
                /\ messages[k].deliveryStatus = "delivered"
                /\ messages[k].deliveredAt = t}) = 2

\* C12: no call takes a delivered message back to queued or clears its
\* attendeeId.
C12_DeliveredIsTerminal ==
    [][\A k \in MessageIds :
        messages[k].deliveryStatus = "delivered"
        => (/\ messages'[k].deliveryStatus = "delivered"
            /\ (messages[k].attendeeId # NULL => messages'[k].attendeeId # NULL))]_vars

\* The rows the last createMessage call created.
LastCreated ==
    {m \in Range(messages) : m.origin = "createMessage" /\ m.req = now - 1}

\* The last call was a createMessage that took the broadcast branch (no
\* recipient, status sent or not given) with this audience.
BroadcastCall(audience) ==
    /\ lastCall.op = "createMessage"
    /\ lastCall.attendeeId = NULL /\ lastCall.inviteId = NULL
    /\ lastCall.status \in {UNDEF, "sent"}
    /\ lastCall.audience = audience

\* C13: a broadcast with audience accepted creates no queued message and no
\* message for an invite.
C13_AcceptedQueuesNothing ==
    BroadcastCall("accepted")
    => \A m \in LastCreated : m.deliveryStatus # "queued" /\ m.inviteId = NULL

\* The attendees of the event that have an accepted invite of the event for
\* their email, or an acceptedAt of their own.
AcceptedAttendeeIds(eventId) ==
    {a.id : a \in {b \in Range(attendees) :
        /\ b.eventId = eventId
        /\ \/ b.acceptedAt # NoDate
           \/ \E j \in Range(invites) :
                j.eventId = eventId /\ j.email = b.email /\ j.status = "accepted"}}

\* C14: a broadcast with audience accepted creates one delivered message for
\* each attendee of the event with an accepted invite or an acceptedAt, and a
\* delivered message for no other attendee.
C14_AcceptedIsUnion ==
    BroadcastCall("accepted")
    => LET delivered == {m \in LastCreated : m.deliveryStatus = "delivered"}
       IN /\ {m.attendeeId : m \in delivered} = AcceptedAttendeeIds(lastCall.eventId)
          /\ Cardinality(delivered) = Cardinality(AcceptedAttendeeIds(lastCall.eventId))

\* e1 has a1 (accepted invite only), a2 (acceptedAt only) and a4 (neither);
\* the broadcast reached a1 and a2 and not a4.
C14_Witness ==
    /\ BroadcastCall("accepted") /\ lastCall.eventId = "e1"
    /\ {"a1", "a2", "a4"} \subseteq AttendeeIds
    /\ {"i1", "i3"} \subseteq InviteIds
    /\ {m.attendeeId : m \in {r \in LastCreated : r.deliveryStatus = "delivered"}}
            = {"a1", "a2"}

\* C15: a broadcast with audience invited creates no delivered message and
\* one queued message per invite of the event (inviteId set, attendeeId null,
\* no deliveredAt), whatever attendees the event has.
C15_InvitedQueuesPerInvite ==
    BroadcastCall("invited")
    => LET eventInvites == {j.id : j \in {i \in Range(invites) :
                                                i.eventId = lastCall.eventId}}
       IN /\ \A m \in LastCreated :
                /\ m.deliveryStatus = "queued"
                /\ m.inviteId \in eventInvites
                /\ m.attendeeId = NULL
                /\ m.deliveredAt = NoDate
          /\ \A inviteId \in eventInvites :
                Cardinality({m \in LastCreated : m.inviteId = inviteId}) = 1

\* e1 has attendees and three invites; the invited broadcast created three
\* queued rows and nothing else.
C15_Witness ==
    /\ BroadcastCall("invited") /\ lastCall.eventId = "e1"
    /\ {"a1", "a2"} \subseteq AttendeeIds
    /\ InviteIds = {"i1", "i2", "i3"}
    /\ Cardinality(LastCreated) = 3
    /\ Len(messages) = 3

\* C16: a broadcast with audience all creates one delivered message (with a
\* deliveredAt) per attendee of the event and one queued message per invite
\* of the event, and a broadcast with no audience creates the same records.
C16_AllIsDualFanout ==
    /\ (BroadcastCall("all") \/ BroadcastCall(UNDEF))
       => LET eventAttendees == {a.id : a \in {b \in Range(attendees) :
                                                b.eventId = lastCall.eventId}}
              eventInvites == {j.id : j \in {i \in Range(invites) :
                                                i.eventId = lastCall.eventId}}
          IN /\ \A attendeeId \in eventAttendees :
                    Cardinality({m \in LastCreated :
                        /\ m.attendeeId = attendeeId /\ m.inviteId = NULL
                        /\ m.deliveryStatus = "delivered"
                        /\ m.deliveredAt # NoDate}) = 1
             /\ \A inviteId \in eventInvites :
                    Cardinality({m \in LastCreated :
                        /\ m.inviteId = inviteId /\ m.attendeeId = NULL
                        /\ m.deliveryStatus = "queued"}) = 1
             /\ Cardinality(LastCreated)
                    = Cardinality(eventAttendees) + Cardinality(eventInvites)
    /\ \A eventId \in Events, status \in {UNDEF, "sent"} :
            CreateMessageRows(eventId, [NoData EXCEPT !.audience = "all",
                                                     !.status = status], now, now)
            = CreateMessageRows(eventId, [NoData EXCEPT !.status = status], now, now)

\* e1 has three attendees (one of them not accepted) and two invites; the
\* broadcast to all created five rows.
C16_Witness ==
    /\ BroadcastCall("all") /\ lastCall.eventId = "e1"
    /\ AttendeeIds = {"a1", "a2", "a4"}
    /\ InviteIds = {"i1", "i2"}
    /\ Cardinality({m \in LastCreated : m.deliveryStatus = "delivered"}) = 3
    /\ Cardinality({m \in LastCreated : m.deliveryStatus = "queued"}) = 2

\* C17: a createMessage call with both attendeeId and inviteId is rejected
\* with an error and creates no message.
C17_BothRecipientsRejected ==
    (/\ lastCall.op = "createMessage"
     /\ lastCall.attendeeId # NULL /\ lastCall.inviteId # NULL)
    => (lastCall.result < 0 /\ LastCreated = {})

\* The targets a finished broadcast request had: the attendees its audience
\* resolves to and, for every audience, the invites of the event.
FanoutTargets(p) ==
    (IF calls[p].audience = "invited" THEN {}
     ELSE {a.id : a \in Range(AudienceAttendees(calls[p].eventId, calls[p].audience))})
    \cup {i.id : i \in Range(allInvites(calls[p].eventId))}

\* C18: a broadcast in which the creation of one recipient's message failed
\* has, once it returned, created a message for every other target and has
\* not returned that failure to its caller.
C18_BestEffortFanout ==
    \A p \in Procs :
        (/\ calls[p].op = "createMessage" /\ calls[p].pc = "done"
         /\ calls[p].attendeeId = NULL /\ calls[p].inviteId = NULL
         /\ calls[p].failed # {})
        => /\ calls[p].result # StoreError
           /\ \A target \in FanoutTargets(p) \ calls[p].failed :
                \E m \in Range(messages) :
                    m.req = p /\ (m.attendeeId = target \/ m.inviteId = target)

\* C19: an acceptance of invite i runs deliverQueuedMessages(i, a) for the
\* attendee a of the invite, after that attendee exists: when the acceptance
\* has returned, the attendee record exists, the promotion for i has run and
\* no message that was queued for i is still queued.
C19_AcceptancePromotes ==
    [][(lastCall'.op = "acceptInvite" /\ lastCall'.result = Ok)
       => (/\ \E i \in Range(invites'), a \in Range(attendees') :
                i.id = lastCall'.inviteId /\ a.eventId = i.eventId /\ a.email = i.email
           /\ lastCall'.inviteId \in promoted'
           /\ \A k \in MessageIds :
                (messages[k].inviteId = lastCall'.inviteId
                    /\ messages[k].deliveryStatus = "queued")
                => messages'[k].deliveryStatus = "delivered")]_vars

\* C20: a broadcast to an event with no attendee and no invite creates no
\* message, returns no representative and raises no error, neither from
\* MessagesService.createMessage nor from the endpoint that wraps it.
C20_EmptyBroadcastIsNoop ==
    (/\ \E audience \in Audiences : BroadcastCall(audience)
     /\ \A a \in Range(attendees) : a.eventId # lastCall.eventId
     /\ \A i \in Range(invites) : i.eventId # lastCall.eventId)
    => (/\ LastCreated = {}
        /\ lastCall.result = NoId
        /\ createMessageEndpoint(lastCall.result).error = NoId)

\* The recipient references of a set or sequence of rows.
Recipients(rows) == {<<m.attendeeId, m.inviteId>> : m \in rows}

\* C21: a createMessage call with neither attendeeId nor inviteId creates,
\* whatever its status, the per-target messages of the broadcast path (the
\* ones the same payload creates with no status), and no message without a
\* recipient.
C21_BroadcastForEveryStatus ==
    (/\ lastCall.op = "createMessage"
     /\ lastCall.attendeeId = NULL /\ lastCall.inviteId = NULL)
    => (/\ \A m \in LastCreated : m.attendeeId # NULL \/ m.inviteId # NULL
        /\ Recipients(LastCreated)
            = Recipients(Range(CreateMessageRows(lastCall.eventId,
                    [NoData EXCEPT !.audience = lastCall.audience], now, now)))
        /\ Cardinality(LastCreated)
            = Len(CreateMessageRows(lastCall.eventId,
                    [NoData EXCEPT !.audience = lastCall.audience], now, now)))

\* C22: a createMessage call with attendeeId set creates exactly one message:
\* for that attendee, delivered, with a deliveredAt and unread, whatever
\* audience, status or inviteId the payload carries.
C22_DirectMessage ==
    (/\ lastCall.op = "createMessage"
     /\ lastCall.attendeeId # NULL
     /\ lastCall.result # StoreError)
    => (/\ Cardinality(LastCreated) = 1
        /\ Cardinality({k \in MessageIds : messages[k].req = now - 1}) = 1
        /\ \A m \in LastCreated :
            /\ m.id = lastCall.result
            /\ m.eventId = lastCall.eventId
            /\ m.attendeeId = lastCall.attendeeId
            /\ m.deliveryStatus = "delivered"
            /\ m.deliveredAt # NoDate
            /\ m.unread = TRUE)

\* A payload with attendeeId, inviteId and the accepted audience created one
\* delivered row.
C22_Witness ==
    /\ lastCall.op = "createMessage"
    /\ lastCall.attendeeId = "a1" /\ lastCall.inviteId = "i2"
    /\ lastCall.audience = "accepted" /\ lastCall.eventId = "e1"
    /\ Len(messages) = 1
    /\ messages[1].deliveryStatus = "delivered"

\* C23: a createMessage call with inviteId set and no attendeeId creates
\* exactly one message: inviteId set, attendeeId null, queued, no deliveredAt.
C23_DeferredMessage ==
    (/\ lastCall.op = "createMessage"
     /\ lastCall.attendeeId = NULL /\ lastCall.inviteId # NULL
     /\ lastCall.result # StoreError)
    => (/\ Cardinality(LastCreated) = 1
        /\ Cardinality({k \in MessageIds : messages[k].req = now - 1}) = 1
        /\ \A m \in LastCreated :
            /\ m.id = lastCall.result
            /\ m.eventId = lastCall.eventId
            /\ m.inviteId = lastCall.inviteId
            /\ m.attendeeId = NULL
            /\ m.deliveryStatus = "queued"
            /\ m.deliveredAt = NoDate)

\* A payload with inviteId and an audience created one queued row.
C23_Witness ==
    /\ lastCall.op = "createMessage"
    /\ lastCall.attendeeId = NULL /\ lastCall.inviteId = "i2"
    /\ lastCall.audience = "all" /\ lastCall.eventId = "e1"
    /\ Len(messages) = 1
    /\ messages[1].deliveryStatus = "queued"

\* C25: a createMessage call that names an event or an invite that does not
\* exist fails with NotFoundException and creates no message.
C25_MissingReferenceIsNotFound ==
    (/\ lastCall.op = "createMessage"
     /\ \/ lastCall.eventId \notin Events
        \/ (lastCall.inviteId # NULL /\ lastCall.inviteId \notin InviteIds))
    => (lastCall.result = NotFoundException /\ LastCreated = {})

\* The target a row was created for: its invite, or else its attendee.
TargetOf(m) == IF m.inviteId # NULL THEN <<"invite", m.inviteId>>
               ELSE <<"attendee", m.attendeeId>>

\* The broadcasts of SpecConc that have returned.
BroadcastsDone ==
    {p \in Procs : /\ calls[p].op = "createMessage" /\ calls[p].pc = "done"
                   /\ calls[p].attendeeId = NULL /\ calls[p].inviteId = NULL}

\* C24: concurrent broadcasts to one event do not interfere: every message
\* has an id of its own, and the messages of each broadcast that has returned
\* are the ones it creates when it runs alone, one per target.
C24_ConcurrentBroadcasts ==
    /\ \A k \in MessageIds : messages[k].id = k
    /\ \A p \in BroadcastsDone :
        LET mine == {k \in MessageIds :
                        messages[k].req = p /\ messages[k].origin = "createMessage"}
            alone == CreateMessageRows(calls[p].eventId, calls[p], 0, p)
        IN /\ {TargetOf(messages[k]) : k \in mine} = {TargetOf(m) : m \in Range(alone)}
           /\ Cardinality(mine) = Len(alone)

\* Two broadcasts to all of e1 have returned with their creates interleaved:
\* attendee a1 and invite i1 each hold one message of each broadcast.
C24_Witness ==
    /\ BroadcastsDone = {1, 2}
    /\ calls[1].audience = "all" /\ calls[2].audience = "all"
    /\ \E j, k, l \in MessageIds :
        /\ j < k /\ k < l
        /\ messages[j].req = messages[l].req /\ messages[j].req # messages[k].req
        /\ {messages[j].req, messages[k].req} = {1, 2}
    /\ \A p \in {1, 2} :
        /\ Cardinality({k \in MessageIds : messages[k].req = p
                            /\ messages[k].attendeeId = "a1"}) = 1
        /\ Cardinality({k \in MessageIds : messages[k].req = p
                            /\ messages[k].inviteId = "i1"}) = 1


C27_PromotionFrame ==
    [][lastCall'.op = "deliverQueuedMessages"
       => (/\ Len(messages') = Len(messages)
           /\ \A k \in MessageIds :
                IF messages[k].inviteId = lastCall'.inviteId
                    /\ messages[k].deliveryStatus = "queued"
                THEN messages'[k] = [messages[k] EXCEPT
                                        !.attendeeId = messages'[k].attendeeId,
                                        !.deliveryStatus = messages'[k].deliveryStatus,
                                        !.deliveredAt = messages'[k].deliveredAt]
                ELSE messages'[k] = messages[k])]_vars

\* A call promoted a message of i1 while a message queued for i2, a message
\* already delivered and a message already read were in the table.
C27_Witness ==
    /\ lastCall.op = "deliverQueuedMessages" /\ lastCall.inviteId = "i1"
    /\ lastCall.result = 1
    /\ \E m \in Range(messages) : m.inviteId = "i2" /\ m.deliveryStatus = "queued"
    /\ \E m \in Range(messages) :
            m.inviteId = NULL /\ m.deliveryStatus = "delivered" /\ m.deliveredAt < now - 1
    /\ \E m \in Range(messages) :
            m.inviteId = "i1" /\ m.deliveredAt = now - 1 /\ m.unread = FALSE

\* C28: at most one attendee exists per (eventId, email), and every
\* getAttendeeByEmail call for an invited email that has returned has
\* returned that one attendee.
C28_OneAttendeePerEmail ==
    /\ \A j, k \in 1..Len(attendees) :
        (attendees[j].eventId = attendees[k].eventId
            /\ attendees[j].email = attendees[k].email) => j = k
    /\ \A p \in Procs :
        (/\ calls[p].op = "getAttendeeByEmail" /\ calls[p].pc = "done"
         /\ calls[p].result # NotFoundException)
        => (/\ calls[p].result = Ok
            /\ \E a \in Range(attendees) :
                /\ a.id = calls[p].attendeeId
                /\ a.eventId = calls[p].eventId /\ a.email = calls[p].email)

\* C29: a getMobileMessages call that has returned reports a total equal to
\* the number of messages in its data list.
C29_TotalMatchesData ==
    \A p \in Procs :
        (calls[p].op = "getMobileMessages" /\ calls[p].pc = "done")
        => calls[p].total = Cardinality(calls[p].listed)

\* C30: acknowledgeMessage on an existing message sets its unread flag to
\* false and changes no other column and no other message; on a missing id
\* it raises NotFound and changes no message; acknowledging the same message
\* again leaves the messages as the first call left them.
C30_AcknowledgeFrame ==
    [][lastCall'.op = "acknowledgeMessage"
       => /\ IF lastCall'.msgId \in MessageIds
             THEN /\ lastCall'.result # NotFoundException
                  /\ messages' = [messages EXCEPT ![lastCall'.msgId].unread = FALSE]
             ELSE /\ lastCall'.result = NotFoundException
                  /\ messages' = messages
          /\ lastCall'.repeat => messages' = messages]_vars

\* A queued message acknowledged twice in a row, another one still unread.
C30_Witness ==
    /\ lastCall.op = "acknowledgeMessage"
    /\ lastCall.repeat
    /\ lastCall.msgId \in MessageIds
    /\ messages[lastCall.msgId].unread = FALSE
    /\ messages[lastCall.msgId].deliveryStatus = "queued"
    /\ \E k \in MessageIds : messages[k].unread

====
